---- MODULE Spec2Model ----
(***************************************************************************)
(* Private Knowledge Q&A: the server (server/server.js), the browser       *)
(* client (PrivateQAAppPreview, concatenated into client/.../Button.jsx)   *)
(* and the two keyword engines they use.                                   *)
(*                                                                         *)
(* The repository holds two programs that share no state: the Express      *)
(* server keeps its documents in the module-level array uploadedDocuments, *)
(* the React client keeps its own list in component state and in           *)
(* localStorage and never calls the server.  A behaviour of this module is *)
(* a run of one of them (program = "server" or "client"), or one           *)
(* application of an engine function to an input drawn in Init             *)
(* (program = "engine").                                                   *)
(*                                                                         *)
(* JavaScript strings are TLA+ strings; TLC evaluates Len, SubSeq and \o   *)
(* on them, so the string functions of the code are written out on         *)
(* characters.                                                             *)
(***************************************************************************)
EXTENDS Integers, Sequences, FiniteSets, TLC

(***************************************************************************)
(* JavaScript string and array primitives                                  *)
(***************************************************************************)

Char(s, i) == SubSeq(s, i, i)

Min2(a, b) == IF a < b THEN a ELSE b

SetMin(S) == CHOOSE x \in S : \A y \in S : x <= y

SetMax(S) == CHOOSE x \in S : \A y \in S : x >= y

UpperLetters == "ABCDEFGHIJKLMNOPQRSTUVWXYZ"

LowerLetters == "abcdefghijklmnopqrstuvwxyz"

Digits == "0123456789"

CharsOf(s) == {Char(s, i) : i \in 1..Len(s)}

UpperSet == CharsOf(UpperLetters)

\* \w of a JavaScript regular expression: [A-Za-z0-9_]
WordChars == CharsOf(UpperLetters) \cup CharsOf(LowerLetters) \cup CharsOf(Digits) \cup {"_"}

\* \s of a JavaScript regular expression, and the characters trim() removes
\* (the ones that occur in the inputs of this model)
Whitespace == {" ", "\n", "\t", "\r"}

LowerMap == [c \in UpperSet |->
               Char(LowerLetters, CHOOSE i \in 1..26 : Char(UpperLetters, i) = c)]

toLowerCaseChar(c) == IF c \in UpperSet THEN LowerMap[c] ELSE c

\* the recursions over a string halve it, which keeps them shallow
RECURSIVE toLowerCaseRange(_, _, _)
toLowerCaseRange(s, lo, hi) ==
    IF lo > hi THEN ""
    ELSE IF lo = hi THEN toLowerCaseChar(Char(s, lo))
    ELSE LET mid == (lo + hi) \div 2
         IN  toLowerCaseRange(s, lo, mid) \o toLowerCaseRange(s, mid + 1, hi)

\* String.prototype.toLowerCase
toLowerCase(s) == toLowerCaseRange(s, 1, Len(s))

\* String.prototype.includes: sub occurs in s (the empty string occurs in every s)
includes(s, sub) ==
    \E i \in 0..(Len(s) - Len(sub)) : SubSeq(s, i + 1, i + Len(sub)) = sub

\* String.prototype.trim
trim(s) ==
    LET keep == {i \in 1..Len(s) : Char(s, i) \notin Whitespace}
    IN  IF keep = {} THEN "" ELSE SubSeq(s, SetMin(keep), SetMax(keep))

\* String.prototype.substring(0, n)
substring0(s, n) == SubSeq(s, 1, Min2(n, Len(s)))

\* the k-th smallest element of a set of numbers
kth(S, k) == CHOOSE x \in S : Cardinality({y \in S : y < x}) = k - 1

\* the pieces of s around separators that start at the indices of starts and
\* end at the indices of ends (as many ends as starts, in the same order)
piecesBetween(s, starts, ends) ==
    LET m == Cardinality(starts)
    IN  [k \in 1..(m + 1) |->
            SubSeq(s,
                   IF k = 1 THEN 1 ELSE kth(ends, k - 1) + 1,
                   IF k = m + 1 THEN Len(s) ELSE kth(starts, k) - 1)]

\* String.prototype.split(/[seps]+/): the pieces between maximal runs of
\* separator characters; a leading or trailing run leaves an empty piece
splitClass(s, seps) ==
    LET n == Len(s)
        isSep(i) == Char(s, i) \in seps
    IN  piecesBetween(s,
            {i \in 1..n : isSep(i) /\ (i = 1 \/ ~isSep(i - 1))},
            {i \in 1..n : isSep(i) /\ (i = n \/ ~isSep(i + 1))})

\* String.prototype.split(c) for a one-character string c
splitChar(s, c) ==
    LET at == {i \in 1..Len(s) : Char(s, i) = c}
    IN  piecesBetween(s, at, at)

\* Array.prototype.map
Map(seq, f(_)) == [i \in 1..Len(seq) |-> f(seq[i])]

\* Array.prototype.slice(0, n)
slice0(seq, n) == SubSeq(seq, 1, Min2(n, Len(seq)))

RECURSIVE Flatten(_)
Flatten(seqs) == IF seqs = <<>> THEN <<>> ELSE Head(seqs) \o Flatten(Tail(seqs))

\* x put into the sorted sequence before the first element that the
\* comparator orders strictly after it
InsertSorted(sorted, x, cmp(_, _)) ==
    LET later == {p \in 1..Len(sorted) : cmp(sorted[p], x) > 0}
        at == IF later = {} THEN Len(sorted) + 1 ELSE SetMin(later)
    IN  SubSeq(sorted, 1, at - 1) \o <<x>> \o SubSeq(sorted, at, Len(sorted))

\* Array.prototype.sort(cmp): stable (ECMAScript 2019), cmp(a, b) < 0 puts a first
sort(seq, cmp(_, _)) ==
    LET RECURSIVE SortFrom(_, _)
        SortFrom(i, acc) ==
            IF i > Len(seq) THEN acc
            ELSE SortFrom(i + 1, InsertSorted(acc, seq[i], cmp))
    IN  SortFrom(1, <<>>)

\* Array.prototype.filter
filter(seq, test(_)) == SelectSeq(seq, test)

\* the characters of drop removed from s: replace(/[drop]/g, '')
RECURSIVE removeCharsRange(_, _, _, _)
removeCharsRange(s, drop, lo, hi) ==
    IF lo > hi THEN ""
    ELSE IF lo = hi THEN (IF Char(s, lo) \in drop THEN "" ELSE Char(s, lo))
    ELSE LET mid == (lo + hi) \div 2
         IN  removeCharsRange(s, drop, lo, mid) \o removeCharsRange(s, drop, mid + 1, hi)

removeChars(s, drop) == removeCharsRange(s, drop, 1, Len(s))

\* Array.prototype.join
RECURSIVE join(_, _)
join(seq, sep) ==
    IF seq = <<>> THEN ""
    ELSE IF Len(seq) = 1 THEN seq[1]
    ELSE seq[1] \o sep \o join(Tail(seq), sep)

\* how many elements of seq pass test
count(seq, test(_)) == Cardinality({i \in 1..Len(seq) : test(seq[i])})

\* \b at the position before character p of text (p in 1..Len(text)+1):
\* exactly one of the two neighbouring characters is a word character
wordBoundary(text, p) ==
    LET before == p > 1 /\ Char(text, p - 1) \in WordChars
        after  == p <= Len(text) /\ Char(text, p) \in WordChars
    IN  before # after

\* new RegExp(`\\b${word}\\b`) matches at position i of text.  The word is
\* taken literally: this is the regular expression's meaning for a word
\* without regular-expression operators, which is what the questions of
\* this model hold.
wordMatchAt(text, word, i) ==
    /\ i + Len(word) - 1 <= Len(text)
    /\ SubSeq(text, i, i + Len(word) - 1) = word
    /\ wordBoundary(text, i)
    /\ wordBoundary(text, i + Len(word))

\* the matches a global regular expression finds: from the left, each next
\* match starts after the end of the one before it
RECURSIVE matchesFrom(_, _, _)
matchesFrom(hits, len, i) ==
    LET rest == {h \in hits : h >= i}
    IN  IF rest = {} THEN 0 ELSE 1 + matchesFrom(hits, len, SetMin(rest) + len)

\* (text.match(new RegExp(`\\b${word}\\b`, "g")) || []).length, word not empty
wholeWordMatches(text, word) ==
    matchesFrom({i \in 1..Len(text) : wordMatchAt(text, word, i)}, Len(word), 1)

\* a Map (or the string keys of an object): keys in the order of their first
\* set; setting a key again replaces its value in place
mapSet(m, key, value) ==
    IF \E i \in 1..Len(m) : m[i].key = key
    THEN [i \in 1..Len(m) |-> IF m[i].key = key THEN [key |-> key, value |-> value] ELSE m[i]]
    ELSE Append(m, [key |-> key, value |-> value])

\* null, and a value that is not null
None == <<>>

Some(x) == <<x>>

(***************************************************************************)
(* server.js: getAnswerFromDocuments, the keyword search used as fallback  *)
(***************************************************************************)

SentenceEnd == {".", "!", "?"}

NotFoundAnswer ==
    "I couldn't find specific information about your question in the uploaded documents."

longSentence(s) == Len(s) > 20

\* doc.content.split(/[.!?]+/).map((s) => s.trim()).filter((s) => s.length > 20)
sentencesOf(content) == filter(Map(splitClass(content, SentenceEnd), trim), longSentence)

\* questionLower.split(/\s+/).filter((w) => w.length > 2)
fallbackWords(questionLower) ==
    filter(splitClass(questionLower, Whitespace), LAMBDA w : Len(w) > 2)

\* questionLower.substring(0, Math.min(15, questionLower.length))
questionPhraseOf(questionLower) == substring0(questionLower, 15)

\* the bonus of a sentence that holds the start of the question
phraseBonus(sentenceLower, questionPhrase) ==
    IF includes(sentenceLower, questionPhrase) THEN 10 ELSE 0

\* the body of the loop over the sentences: the score and the match count
scoreSentence(sentence, questionWords, questionPhrase) ==
    LET sentenceLower == toLowerCase(sentence)
        matchCount == count(questionWords, LAMBDA word : includes(sentenceLower, word))
        score == 3 * matchCount
                 + phraseBonus(sentenceLower, questionPhrase)
                 + (IF matchCount > 0 THEN matchCount * 2 ELSE 0)
    IN  [score |-> score, matchCount |-> matchCount]

\* the entries one document adds to allMatches, in the order of its sentences
matchesOfDocument(doc, questionWords, questionPhrase) ==
    LET sentences == sentencesOf(doc.content)
        scored == [i \in 1..Len(sentences) |->
                     LET sc == scoreSentence(sentences[i], questionWords, questionPhrase)
                     IN  [document |-> doc.name,
                          excerpt |-> substring0(trim(sentences[i]), 300),
                          score |-> sc.score,
                          matchCount |-> sc.matchCount]]
    IN  filter(scored, LAMBDA m : m.score > 0)

\* a comparator on the score alone
compareScores(a, b) == b.score - a.score

\* the comparator of allMatches.sort
compareMatches(a, b) ==
    IF b.score # a.score THEN b.score - a.score ELSE b.matchCount - a.matchCount

\* allMatches as the loops fill it: documents in their order, sentences in theirs
pushedMatchesOf(question, documents) ==
    LET questionLower == toLowerCase(question)
        questionWords == fallbackWords(questionLower)
        questionPhrase == questionPhraseOf(questionLower)
        perDocument == [d \in 1..Len(documents) |->
                          matchesOfDocument(documents[d], questionWords, questionPhrase)]
    IN  Flatten(perDocument)

\* allMatches after the sort
allMatchesOf(question, documents) ==
    sort(pushedMatchesOf(question, documents), compareMatches)

\* topSources with a bound of 2
topSourcesTwo(allMatches) ==
    [i \in 1..Min2(2, Len(allMatches)) |->
        [document |-> allMatches[i].document, excerpt |-> allMatches[i].excerpt]]

\* the sources pushed from the sorted matches: the first Math.min(3, length)
topSources(allMatches) ==
    [i \in 1..Min2(3, Len(allMatches)) |->
        [document |-> allMatches[i].document, excerpt |-> allMatches[i].excerpt]]

getAnswerFromDocuments(question, documents) ==
    LET allMatches == allMatchesOf(question, documents)
    IN  [answer |-> IF Len(allMatches) > 0 THEN allMatches[1].excerpt ELSE NotFoundAnswer,
         sources |-> IF Len(allMatches) > 0 THEN topSources(allMatches) ELSE <<>>,
         primaryDocument |-> IF Len(allMatches) > 0 THEN Some(allMatches[1].document)
                             ELSE None]

(***************************************************************************)
(* server.js: POST /api/ask after the model has answered, the sources      *)
(***************************************************************************)

\* questionLower.split(" ").filter((w) => w.length > 3)
modelPathWords(question) ==
    filter(splitChar(toLowerCase(question), " "), LAMBDA w : Len(w) > 3)

\* the answer holds the document's name, or its name up to the first "."
mentionedIn(answer, doc) ==
    LET answerLower == toLowerCase(answer)
        docNameLower == toLowerCase(doc.name)
        docNameWithoutExt == toLowerCase(splitChar(doc.name, ".")[1])
    IN  includes(answerLower, docNameLower) \/ includes(answerLower, docNameWithoutExt)

\* sourceSet after the first loop: the documents the answer mentions
RECURSIVE mentionedSourcesFrom(_, _, _, _)
mentionedSourcesFrom(answer, documents, i, sourceSet) ==
    IF i > Len(documents) THEN sourceSet
    ELSE mentionedSourcesFrom(answer, documents, i + 1,
            IF mentionedIn(answer, documents[i])
            THEN mapSet(sourceSet, documents[i].name, documents[i])
            ELSE sourceSet)

mentionedSources(answer, documents) == mentionedSourcesFrom(answer, documents, 1, <<>>)

\* the score of one document: 2 for every whole-word occurrence of a keyword
documentScore(doc, questionWords) ==
    LET contentLower == toLowerCase(doc.content)
        RECURSIVE sumFrom(_)
        sumFrom(w) == IF w > Len(questionWords) THEN 0
                      ELSE wholeWordMatches(contentLower, questionWords[w]) * 2 + sumFrom(w + 1)
    IN  sumFrom(1)

\* documentScores: an entry per name of a document with score > 0
RECURSIVE documentScoresFrom(_, _, _, _)
documentScoresFrom(documents, questionWords, i, scores) ==
    IF i > Len(documents) THEN scores
    ELSE LET score == documentScore(documents[i], questionWords)
         IN  documentScoresFrom(documents, questionWords, i + 1,
                IF score > 0
                THEN mapSet(scores, documents[i].name, [score |-> score, doc |-> documents[i]])
                ELSE scores)

\* keywordSources without the sort
keywordSourcesUnsorted(documents, questionWords) ==
    LET entries == documentScoresFrom(documents, questionWords, 1, <<>>)
        firstDocs == slice0(entries, 3)
    IN  [i \in 1..Len(firstDocs) |->
            [key |-> firstDocs[i].key, value |-> firstDocs[i].value.doc]]

\* Object.entries(documentScores).sort(...).slice(0, 3), set into sourceSet
\* (no name of a document of this model is an integer, so the entries keep
\* the order in which they were set)
keywordSources(documents, questionWords) ==
    LET entries == documentScoresFrom(documents, questionWords, 1, <<>>)
        sortedDocs == slice0(sort(entries, LAMBDA a, b : b.value.score - a.value.score), 3)
    IN  [i \in 1..Len(sortedDocs) |->
            [key |-> sortedDocs[i].key, value |-> sortedDocs[i].value.doc]]

\* sourceSet before the excerpts are looked up
sourceSetOf(question, answer, documents) ==
    LET mentioned == mentionedSources(answer, documents)
    IN  IF Len(mentioned) = 0
        THEN keywordSources(documents, modelPathWords(question))
        ELSE mentioned

\* relevantSentences of one document: the sentences with a keyword, most keywords first
relevantSentences(doc, questionWords) ==
    LET matches(sentence) ==
            count(questionWords, LAMBDA w : includes(toLowerCase(sentence), toLowerCase(w)))
    IN  sort(filter(sentencesOf(doc.content), LAMBDA sentence : matches(sentence) > 0),
             LAMBDA a, b : matches(b) - matches(a))

\* sources after the loop over sourceSet: one entry per document that has a
\* relevant sentence
RECURSIVE excerptsFrom(_, _, _)
excerptsFrom(sourceSet, questionWords, i) ==
    IF i > Len(sourceSet) THEN <<>>
    ELSE LET relevant == relevantSentences(sourceSet[i].value, questionWords)
         IN  (IF Len(relevant) > 0
              THEN <<[document |-> sourceSet[i].key,
                      excerpt |-> substring0(trim(relevant[1]), 250)]>>
              ELSE <<>>)
             \o excerptsFrom(sourceSet, questionWords, i + 1)

\* responseSources without the slice
responseSourcesUnsliced(sources) == sources

\* sources.slice(0, 3) of the response
responseSources(sources) == slice0(sources, 3)

\* the body of the 200 response of the model path
modelPathResponse(question, answer, documents) ==
    LET sources == excerptsFrom(sourceSetOf(question, answer, documents),
                                modelPathWords(question), 1)
    IN  [question |-> question,
         answer |-> answer,
         sources |-> responseSources(sources),
         confidence |-> 95,
         method |-> "openai"]

\* the body of the 200 response of the catch block (confidence in hundredths)
fallbackResponse(question, documents) ==
    LET fallbackResult == getAnswerFromDocuments(question, documents)
    IN  [question |-> question,
         answer |-> fallbackResult.answer,
         sources |-> fallbackResult.sources,
         confidence |-> 70,
         method |-> "fallback_search"]

(***************************************************************************)
(* PrivateQAAppPreview: findAnswerInDocuments, the client's keyword search *)
(***************************************************************************)

StopWords == {"what", "where", "when", "who", "how", "does", "this", "that", "with", "from"}

AskMoreSpecific ==
    "Please ask a more specific question with keywords found in your documents."

ClientNotFound ==
    "I couldn't find any information dealing with that in your uploaded documents."

\* query.toLowerCase().replace(/[?.,!]/g, '').split(' ').filter(...)
keywordsOf(query) ==
    filter(splitChar(removeChars(toLowerCase(query), {"?", ".", ",", "!"}), " "),
           LAMBDA w : Len(w) > 3 /\ w \notin StopWords)

\* doc.content.split(/\n\s*\n/): a match starts at a newline and, \s* being
\* greedy, ends at the last newline of the whitespace around it; so each
\* maximal run of whitespace with two newlines or more holds one separator,
\* from its first newline to its last
splitParagraphs(s) ==
    LET n == Len(s)
        isNewline(i) == Char(s, i) = "\n"
        sameRun(a, b) == \A m \in a..b : Char(s, m) \in Whitespace
        earlier(i) == \E a \in 1..(i - 1) : isNewline(a) /\ sameRun(a, i)
        later(i) == \E b \in (i + 1)..n : isNewline(b) /\ sameRun(i, b)
    IN  piecesBetween(s,
            {i \in 1..n : isNewline(i) /\ ~earlier(i) /\ later(i)},
            {i \in 1..n : isNewline(i) /\ earlier(i) /\ ~later(i)})

\* the score of one chunk: per keyword it holds, 1 plus its whole-word matches
chunkScore(chunk, keywords) ==
    LET lowerChunk == toLowerCase(chunk)
        RECURSIVE sumFrom(_)
        sumFrom(k) ==
            IF k > Len(keywords) THEN 0
            ELSE (IF includes(lowerChunk, keywords[k])
                  THEN 1 + wholeWordMatches(lowerChunk, keywords[k])
                  ELSE 0) + sumFrom(k + 1)
    IN  sumFrom(1)

\* the entries one document adds to relevantChunks
chunksOfDocument(doc, keywords) ==
    LET chunks == splitParagraphs(doc.content)
        scored == [i \in 1..Len(chunks) |->
                     [text |-> trim(chunks[i]),
                      score |-> chunkScore(chunks[i], keywords),
                      source |-> doc.name]]
    IN  filter(scored, LAMBDA c : c.score > 0)

\* relevantChunks.sort(...).slice(0, 3)
topChunksOf(relevantChunks) ==
    slice0(sort(relevantChunks, LAMBDA a, b : b.score - a.score), 3)

\* [...new Set(names)]: the names in the order of their first occurrence
RECURSIVE uniqueFrom(_, _, _)
uniqueFrom(names, i, acc) ==
    IF i > Len(names) THEN acc
    ELSE uniqueFrom(names, i + 1,
            IF \E j \in 1..Len(acc) : acc[j] = names[i] THEN acc ELSE Append(acc, names[i]))

unique(names) == uniqueFrom(names, 1, <<>>)

findAnswerInDocuments(query, docs) ==
    LET keywords == keywordsOf(query)
        relevantChunks == Flatten([d \in 1..Len(docs) |-> chunksOfDocument(docs[d], keywords)])
        topChunks == topChunksOf(relevantChunks)
        uniqueSources == Map(unique(Map(topChunks, LAMBDA c : c.source)),
                             LAMBDA name : [document |-> name,
                                            excerpt |-> "Referenced in answer generation."])
    IN  IF Len(keywords) = 0 THEN [answer |-> AskMoreSpecific, sources |-> <<>>]
        ELSE IF Len(topChunks) = 0 THEN [answer |-> ClientNotFound, sources |-> <<>>]
        ELSE [answer |-> join(Map(topChunks, LAMBDA c : c.text), "\n\n...\n\n"),
              sources |-> uniqueSources]

(***************************************************************************)
(* Inputs                                                                  *)
(***************************************************************************)

\* the most documents a store holds in this model
MaxDocs == 2

\* the most documents in an input of the engines
MaxSetSize == 4

\* the last value of the client's millisecond clock
MaxClock == 2

PolicyFile ==
    [name |-> "policy.txt",
     content |-> "Vacation requests must be submitted 2 weeks in advance. Approval is manager discretion."]

FaqFile ==
    [name |-> "faq.md",
     content |-> "Vacation weeks carry over a.\n\nVacation weeks carry over b.\n\nVacation weeks carry over c.\n\nVacation weeks carry over d."]

TinyFile ==
    [name |-> "tiny.txt", content |-> "Vacation is 2 weeks."]

NotesFile ==
    [name |-> "notes.txt", content |-> "Unused vacation weeks expire in March."]

GuideFile ==
    [name |-> "guide.txt",
     content |-> "Is it ok to go home at noon? Book vacation weeks with HR early."]

\* the files the engines are applied to
EngineFiles == {PolicyFile, FaqFile, TinyFile, NotesFile, GuideFile}

\* the files uploaded to the server
ServerFiles == {PolicyFile, GuideFile}

\* the files selected in the client
ClientFiles == {TinyFile, NotesFile}

\* questions: keywords of the documents; the scenario of the specification;
\* only short words; only stop-words; a keyword after the first 15
\* characters; no word of any document
EngineQuestions ==
    {"vacation weeks",
     "How many weeks notice for vacation?",
     "is it ok",
     "what does this",
     "is it ok to go skydiving",
     "is it ok to go vacation weeks",
     "payroll deadline"}

\* the questions put to the model path: their words longer than 3 characters
\* hold letters only, so new RegExp(word) takes them literally
ModelQuestions == {"vacation weeks", "is it ok", "what does this", "payroll deadline"}

ServerQuestions == {"vacation weeks"}

\* what the remote model answers to the server
ServerAnswers ==
    {"According to policy.txt: two weeks.",
     "This information is not available in the provided documents."}

\* what the remote model answers
ModelAnswers ==
    {"According to policy.txt, faq.md, tiny.txt, notes.txt and guide.txt: two weeks.",
     "According to Policy: two weeks.",
     "This information is not available in the provided documents."}

\* req.params.id of a DELETE
RawIds == {ToString(i) : i \in 1..MaxDocs} \cup {"9", "2x", "abc"}

(***************************************************************************)
(* State                                                                   *)
(***************************************************************************)

VARIABLES
    program,            \* which program this behaviour runs
    openai,             \* server: the model client was constructed (else undefined)
    uploadedDocuments,  \* server: the array of stored documents
    ask,                \* server: the POST /api/ask request suspended at its await
    res,                \* server: the response being sent, with what its handler logged
    docs,               \* client: the state uploadedDocuments of the component
    localStorage,       \* client: the item qa_app_documents
    file,               \* client: the state file, the selected file
    isUploading,        \* client: the state isUploading
    reader,             \* client: the FileReader whose onload has not run yet
    now,                \* client: Date.now()
    documents,          \* engine: the documents an engine is applied to
    result              \* engine: what the engine returned

serverVars == <<openai, uploadedDocuments, ask, res>>

clientVars == <<docs, localStorage, file, isUploading, reader, now>>

engineVars == <<documents, result>>

vars == <<program, serverVars, clientVars, engineVars>>

\* the sequences of distinct elements of S of length n at most
RECURSIVE ArrangementsOf(_, _)
ArrangementsOf(S, n) ==
    IF n = 0 THEN {<<>>}
    ELSE LET shorter == ArrangementsOf(S, n - 1)
         IN  shorter \cup {Append(q, x) : q \in shorter, x \in S}

DistinctSeqs(S, n) ==
    {q \in ArrangementsOf(S, n) : \A a, b \in 1..Len(q) : a # b => q[a] # q[b]}

\* the files of a sequence as documents with ids 1, 2, ...
asDocuments(files) ==
    [i \in 1..Len(files) |->
        [id |-> i, name |-> files[i].name, content |-> files[i].content]]

Init ==
    /\ program \in {"server", "client", "engine"}
    /\ openai \in (IF program = "server" THEN BOOLEAN ELSE {FALSE})
    /\ uploadedDocuments = <<>>
    /\ ask = None
    /\ res = None
    /\ docs = <<>>
    /\ localStorage = None
    /\ file = None
    /\ isUploading = FALSE
    /\ reader = None
    /\ now = 0
    /\ documents \in (IF program = "engine"
                      THEN {asDocuments(files) : files \in DistinctSeqs(EngineFiles, MaxSetSize)}
                      ELSE {<<>>})
    /\ result = None

(***************************************************************************)
(* server.js: the routes                                                   *)
(***************************************************************************)

\* what a handler sends: the status and the JSON body, with the request it
\* answers and the lines the handler logged
response(route, request, status, body, log) ==
    Some([route |-> route, request |-> request, status |-> status, body |-> body, log |-> log])

\* the response has gone out; the event loop takes the next request
ResponseSent ==
    /\ program = "server"
    /\ res # None
    /\ res' = None
    /\ UNCHANGED <<program, openai, uploadedDocuments, ask, clientVars, engineVars>>

\* GET /api/documents
GetDocuments ==
    /\ program = "server"
    /\ res = None
    /\ res' = response("GET /api/documents", <<>>, 200, uploadedDocuments, {})
    /\ UNCHANGED <<program, openai, uploadedDocuments, ask, clientVars, engineVars>>

digitValue(c) == (CHOOSE i \in 1..10 : Char(Digits, i) = c) - 1

\* parseInt(raw): the number its leading decimal digits write, NaN (None) if
\* it has none
parseInt(raw) ==
    LET nonDigits == {i \in 1..Len(raw) : Char(raw, i) \notin CharsOf(Digits)}
        n == IF nonDigits = {} THEN Len(raw) ELSE SetMin(nonDigits) - 1
        RECURSIVE valueOf(_)
        valueOf(k) == IF k = 0 THEN 0 ELSE 10 * valueOf(k - 1) + digitValue(Char(raw, k))
    IN  IF n = 0 THEN None ELSE Some(valueOf(n))

\* uploadedDocuments.findIndex((doc) => doc.id === docId): an index from 0,
\* or -1; NaN equals no id
findIndex(documentList, docId) ==
    LET found == {i \in 1..Len(documentList) : Some(documentList[i].id) = docId}
    IN  IF found = {} THEN -1 ELSE SetMin(found) - 1

\* the array after splice(start, 1): a negative start counts from the end
splice1(documentList, start) ==
    LET len == Len(documentList)
        actualStart == IF start < 0
                       THEN (IF len + start > 0 THEN len + start ELSE 0)
                       ELSE Min2(start, len)
    IN  SubSeq(documentList, 1, actualStart) \o SubSeq(documentList, actualStart + 2, len)

\* notFound without the comparison: the handler goes on to splice(-1, 1)
notFoundNever(docIndex) == FALSE

\* if (docIndex === -1)
notFound(docIndex) == docIndex = -1

\* DELETE /api/documents/:id; unlinkFails: existsSync or unlinkSync throws,
\* which the handler catches and logs
DeleteDocument(raw, unlinkFails) ==
    /\ program = "server"
    /\ res = None
    /\ LET docId == parseInt(raw)
           docIndex == findIndex(uploadedDocuments, docId)
           request == [id |-> raw, unlinkFails |-> unlinkFails]
       IN  IF notFound(docIndex)
           THEN /\ res' = response("DELETE /api/documents/:id", request, 404,
                                   [error |-> "Document not found"], {})
                /\ UNCHANGED uploadedDocuments
           ELSE /\ uploadedDocuments' = splice1(uploadedDocuments, docIndex)
                /\ res' = response("DELETE /api/documents/:id", request, 200,
                                   [message |-> "Document deleted successfully"],
                                   IF unlinkFails THEN {"Error deleting file from disk:"} ELSE {})
    /\ UNCHANGED <<program, openai, ask, clientVars, engineVars>>

\* the document POST /api/upload builds (the fields the handlers read)
newDocument(documentList, f) ==
    [id |-> Len(documentList) + 1, name |-> f.name, content |-> f.content]

\* unshift in the place of push
pushFront(documentList, doc) == <<doc>> \o documentList

\* uploadedDocuments.push(doc)
push(documentList, doc) == Append(documentList, doc)

\* POST /api/upload.  disk = "persist": multer cannot write the file and hands
\* the error to Express; disk = "read": fs.readFileSync throws in the handler.
\* Express answers both with its default error response, 500.
Upload(upload, disk) ==
    /\ program = "server"
    /\ res = None
    /\ Len(uploadedDocuments) < MaxDocs
    /\ LET request == [file |-> upload, disk |-> disk]
       IN  IF upload = None
           THEN /\ res' = response("POST /api/upload", request, 400,
                                   [error |-> "No file uploaded"], {})
                /\ UNCHANGED uploadedDocuments
           ELSE IF disk # "ok"
           THEN /\ res' = response("POST /api/upload", request, 500,
                                   [error |-> "Internal Server Error"], {})
                /\ UNCHANGED uploadedDocuments
           ELSE LET doc == newDocument(uploadedDocuments, upload[1])
                IN  /\ uploadedDocuments' = push(uploadedDocuments, doc)
                    /\ res' = response("POST /api/upload", request, 200,
                                   [message |-> "File uploaded successfully", document |-> doc], {})
    /\ UNCHANGED <<program, openai, ask, clientVars, engineVars>>

\* documentMap: the ids of the documents put into the prompt, by name
documentMapOf(documentList) ==
    [name \in {documentList[i].name : i \in 1..Len(documentList)} |->
        documentList[SetMax({i \in 1..Len(documentList) : documentList[i].name = name})].id]

CallingModel == "Calling OpenAI API..."

UsingFallback == "Using fallback search method..."

\* askRejection without the check of the store
askRejectionNoStoreCheck(question, documentList) ==
    IF question = None \/ question = Some("") THEN Some("Question is required")
    ELSE None

\* the 400 of POST /api/ask, if it answers one: the question is missing (or
\* the empty string, which is falsy too), or no document is stored
askRejection(question, documentList) ==
    IF question = None \/ question = Some("") THEN Some("Question is required")
    ELSE IF Len(documentList) = 0 THEN Some("No documents uploaded")
    ELSE None

\* POST /api/ask up to its await; question is req.body.question, None when
\* it is missing.  One request at a time is suspended in this model.
AskStart(question) ==
    /\ program = "server"
    /\ res = None
    /\ ask = None
    /\ LET request == [question |-> question]
           rejection == askRejection(question, uploadedDocuments)
       IN  IF rejection # None
           THEN /\ res' = response("POST /api/ask", request, 400, [error |-> rejection[1]], {})
                /\ UNCHANGED ask
           ELSE IF ~openai
           THEN /\ res' = response("POST /api/ask", request, 500,
                       [error |-> "OpenAI API not initialized. Please check your API key."], {})
                /\ UNCHANGED ask
           ELSE /\ ask' = Some([question |-> question[1],
                                documentMap |-> documentMapOf(uploadedDocuments)])
                /\ UNCHANGED res
    /\ UNCHANGED <<program, openai, uploadedDocuments, clientVars, engineVars>>

\* the awaited call returns a completion with an answer: the model path
AskAnswered(answer) ==
    /\ program = "server"
    /\ res = None
    /\ ask # None
    /\ res' = response("POST /api/ask", [question |-> Some(ask[1].question)], 200,
                       modelPathResponse(ask[1].question, answer, uploadedDocuments),
                       {CallingModel})
    /\ ask' = None
    /\ UNCHANGED <<program, openai, uploadedDocuments, clientVars, engineVars>>

\* the awaited call rejects (network, authentication, quota), or its
\* completion has no choices[0].message.content: the catch block
AskFailed(failure) ==
    /\ program = "server"
    /\ res = None
    /\ ask # None
    /\ res' = response("POST /api/ask", [question |-> Some(ask[1].question)], 200,
                       fallbackResponse(ask[1].question, uploadedDocuments),
                       {CallingModel, "OpenAI API Error Type: " \o failure, UsingFallback})
    /\ ask' = None
    /\ UNCHANGED <<program, openai, uploadedDocuments, clientVars, engineVars>>

\* a rejected call; a completion without choices[0]
ModelFailures == {"APIConnectionError", "TypeError"}

(***************************************************************************)
(* PrivateQAAppPreview: the document list of the client                    *)
(***************************************************************************)

\* saveDocumentsToStorage, and JSON.parse of what it stored: a document holds
\* strings and a number only, which JSON.stringify and JSON.parse give back
\* as they were
saveDocumentsToStorage(list) == Some(list)

\* the component mounts (the page is loaded): fresh state, then fetchDocuments.
\* A FileReader of the page before is gone with it.
Mount ==
    /\ program = "client"
    /\ docs' = IF localStorage # None THEN localStorage[1] ELSE <<>>
    /\ file' = None
    /\ isUploading' = FALSE
    /\ reader' = None
    /\ UNCHANGED <<program, localStorage, now, serverVars, engineVars>>

\* handleFileChange (the input is disabled while isUploading)
handleFileChange(f) ==
    /\ program = "client"
    /\ ~isUploading
    /\ file' = Some(f)
    /\ UNCHANGED <<program, docs, localStorage, isUploading, reader, now, serverVars, engineVars>>

\* handleUpload up to reader.readAsText (the button is disabled while
\* isUploading; without a file it alerts and returns).  The callbacks close
\* over file and uploadedDocuments of this render.
handleUpload ==
    /\ program = "client"
    /\ ~isUploading
    /\ file # None
    /\ Len(docs) < MaxDocs
    /\ isUploading' = TRUE
    /\ reader' = Some([file |-> file[1], uploadedDocuments |-> docs])
    /\ UNCHANGED <<program, docs, localStorage, file, now, serverVars, engineVars>>

\* the document reader.onload builds
clientDocument(f, time) ==
    [id |-> ToString(time), name |-> f.name, content |-> f.content]

\* reader.onload
readerOnLoad ==
    /\ program = "client"
    /\ reader # None
    /\ LET newDoc == clientDocument(reader[1].file, now)
           updatedDocs == Append(reader[1].uploadedDocuments, newDoc)
       IN  /\ docs' = updatedDocs
           /\ localStorage' = saveDocumentsToStorage(updatedDocs)
    /\ file' = None
    /\ isUploading' = FALSE
    /\ reader' = None
    /\ UNCHANGED <<program, now, serverVars, engineVars>>

\* reader.onerror, or readAsText throws
readerOnError ==
    /\ program = "client"
    /\ reader # None
    /\ isUploading' = FALSE
    /\ reader' = None
    /\ UNCHANGED <<program, docs, localStorage, file, now, serverVars, engineVars>>

\* uploadedDocuments.filter((doc) => doc.id !== docId)
withoutId(list, docId) == filter(list, LAMBDA doc : doc.id # docId)

\* handleDeleteDocument; confirmed is what window.confirm returns
handleDeleteDocument(docId, confirmed) ==
    /\ program = "client"
    /\ IF confirmed
       THEN LET updatedDocs == withoutId(docs, docId)
            IN  /\ docs' = updatedDocs
                /\ localStorage' = saveDocumentsToStorage(updatedDocs)
       ELSE UNCHANGED <<docs, localStorage>>
    /\ UNCHANGED <<program, file, isUploading, reader, now, serverVars, engineVars>>

\* a millisecond passes
Tick ==
    /\ program = "client"
    /\ now < MaxClock
    /\ now' = now + 1
    /\ UNCHANGED <<program, docs, localStorage, file, isUploading, reader, serverVars, engineVars>>

\* the ids a delete is asked for
ClientIds == {ToString(t) : t \in 0..MaxClock}

(***************************************************************************)
(* The engines applied to the documents drawn in Init                      *)
(***************************************************************************)

applied(fn, question, out) == Some([fn |-> fn, question |-> question, out |-> out])

ApplyFallback(question) ==
    /\ program = "engine"
    /\ result = None
    /\ result' = applied("getAnswerFromDocuments", question,
                         getAnswerFromDocuments(question, documents))
    /\ UNCHANGED <<program, documents, serverVars, clientVars>>

ApplyClient(question) ==
    /\ program = "engine"
    /\ result = None
    /\ result' = applied("findAnswerInDocuments", question,
                         findAnswerInDocuments(question, documents))
    /\ UNCHANGED <<program, documents, serverVars, clientVars>>

\* the model path needs a document, as POST /api/ask does
ApplyModelPath(question, answer) ==
    /\ program = "engine"
    /\ result = None
    /\ Len(documents) > 0
    /\ result' = applied("modelPath", question,
                         modelPathResponse(question, answer, documents))
    /\ UNCHANGED <<program, documents, serverVars, clientVars>>

UploadInputs == {None} \cup {Some(f) : f \in ServerFiles}

AskInputs == {None, Some("")} \cup {Some(q) : q \in ServerQuestions}

Next ==
    \/ ResponseSent
    \/ GetDocuments
    \/ \E raw \in RawIds, unlinkFails \in BOOLEAN : DeleteDocument(raw, unlinkFails)
    \/ \E upload \in UploadInputs, disk \in {"ok", "persist", "read"} : Upload(upload, disk)
    \/ \E question \in AskInputs : AskStart(question)
    \/ \E answer \in ServerAnswers : AskAnswered(answer)
    \/ \E failure \in ModelFailures : AskFailed(failure)
    \/ Mount
    \/ \E f \in ClientFiles : handleFileChange(f)
    \/ handleUpload
    \/ readerOnLoad
    \/ readerOnError
    \/ \E docId \in ClientIds, confirmed \in BOOLEAN : handleDeleteDocument(docId, confirmed)
    \/ Tick
    \/ \E question \in EngineQuestions : ApplyFallback(question)
    \/ \E question \in EngineQuestions : ApplyClient(question)
    \/ \E question \in ModelQuestions, answer \in ModelAnswers : ApplyModelPath(question, answer)

Spec == Init /\ [][Next]_vars

(***************************************************************************)
(* Properties                                                              *)
(***************************************************************************)

uniqueIds(list) == \A i, j \in 1..Len(list) : i # j => list[i].id # list[j].id

askResponse(r) == r # None /\ r[1].route = "POST /api/ask"

deleteResponse(r) == r # None /\ r[1].route = "DELETE /api/documents/:id"

uploadResponse(r) == r # None /\ r[1].route = "POST /api/upload"

\* what fetchDocuments loads from the stored item
stored(item) == IF item = None THEN <<>> ELSE item[1]

\* C1, for the server store: after any uploads and deletes, no two stored
\* documents have the same id.
C1_ServerIdsUnique == uniqueIds(uploadedDocuments)

\* C2: a POST /api/ask with a question and a non-empty store (one that is
\* not answered 400) whose model path does not succeed is answered 200 by the
\* fallback, method fallback_search and confidence 0.7, below the 0.95 of the
\* model path; it gets no error response.
C2_FailureFallsBack ==
    (/\ askResponse(res)
     /\ res[1].status # 400
     /\ ~(res[1].status = 200 /\ res[1].body.method = "openai"))
    => /\ res[1].status = 200
       /\ res[1].body.method = "fallback_search"
       /\ res[1].body.confidence = 70
       /\ res[1].body.confidence < modelPathResponse("", "", <<>>).confidence

\* C3: a POST /api/ask whose question is missing or empty, or that arrives
\* while the store is empty, is answered 400 in the same step; it leaves no
\* model call suspended and its handler logged neither the model call nor
\* the fallback.
C3_RejectedBeforeModel ==
    [][\A question \in AskInputs :
          (/\ AskStart(question)
           /\ (question \in {None, Some("")} \/ Len(uploadedDocuments) = 0))
          => /\ askResponse(res')
             /\ res'[1].status = 400
             /\ res'[1].log \cap {CallingModel, UsingFallback} = {}
             /\ ask' = None]_vars

\* a question arrived at the empty store and was answered 400
C3_Witness ==
    /\ askResponse(res)
    /\ res[1].status = 400
    /\ res[1].request.question \in {Some(q) : q \in ServerQuestions}
    /\ uploadedDocuments = <<>>

\* C4: every answer has 3 sources at most: the responses of POST /api/ask
\* (model path and fallback) and the results of both engines.
C4_AtMostThreeSources ==
    /\ (askResponse(res) /\ res[1].status = 200) => Len(res[1].body.sources) <= 3
    /\ result # None => Len(result[1].out.sources) <= 3

\* the model path found excerpts in more than 3 mentioned documents
C4_Witness ==
    /\ result # None
    /\ result[1].fn = "modelPath"
    /\ Len(mentionedSources(result[1].out.answer, documents)) > 3
    /\ Len(excerptsFrom(sourceSetOf(result[1].question, result[1].out.answer, documents),
                        modelPathWords(result[1].question), 1)) > 3
    /\ Len(result[1].out.sources) = 3

\* C5: a delete of an id that no stored document has leaves the store as it
\* was, records and order; the server answers it 404.  (On the server the id
\* asked for is parseInt of the path parameter.)  As the store is unchanged,
\* so it is after every repetition.
C5_UnknownIdDeleteNoop ==
    [][/\ \A raw \in RawIds, unlinkFails \in BOOLEAN :
            (/\ DeleteDocument(raw, unlinkFails)
             /\ \A i \in 1..Len(uploadedDocuments) :
                    Some(uploadedDocuments[i].id) # parseInt(raw))
            => /\ uploadedDocuments' = uploadedDocuments
               /\ deleteResponse(res')
               /\ res'[1].status = 404
       /\ \A docId \in ClientIds, confirmed \in BOOLEAN :
            (/\ handleDeleteDocument(docId, confirmed)
             /\ \A i \in 1..Len(docs) : docs[i].id # docId)
            => /\ docs' = docs
               /\ stored(localStorage') = stored(localStorage)]_vars

\* a delete of an unknown id was answered 404 while documents are stored
C5_Witness ==
    /\ deleteResponse(res)
    /\ res[1].status = 404
    /\ Len(uploadedDocuments) > 0

\* the result of applying the engine fn to documents
applies(fn) == result # None /\ result[1].fn = fn

\* the question's words on white space, lower-cased
tokensOf(question) ==
    filter(splitClass(toLowerCase(question), Whitespace), LAMBDA w : Len(w) > 0)

\* every token is 3 characters long at most, or a stop-word
noUsableKeyword(question) ==
    \A i \in 1..Len(tokensOf(question)) :
        Len(tokensOf(question)[i]) <= 3 \/ tokensOf(question)[i] \in StopWords

\* C6: for a question without a usable keyword, each engine returns the
\* canned "ask more specifically" message and no sources.
C6_NoKeywordAsksForMore ==
    (/\ applies("getAnswerFromDocuments") \/ applies("findAnswerInDocuments")
     /\ noUsableKeyword(result[1].question))
    => /\ result[1].out.answer = AskMoreSpecific
       /\ result[1].out.sources = <<>>

\* some word of words occurs in some unit of some document
occursInUnit(words, unitsOf(_)) ==
    \E d \in 1..Len(documents) :
        \E u \in 1..Len(unitsOf(documents[d].content)) :
            \E w \in 1..Len(words) :
                includes(toLowerCase(unitsOf(documents[d].content)[u]), words[w])

\* C7: when the question has keywords and none of them occurs in a candidate
\* unit of a document, the engine returns its canned "couldn't find" answer
\* and no sources (the server: primaryDocument null too).
C7_NoMatchNotFound ==
    /\ (/\ applies("getAnswerFromDocuments")
        /\ Len(fallbackWords(toLowerCase(result[1].question))) > 0
        /\ ~occursInUnit(fallbackWords(toLowerCase(result[1].question)), sentencesOf))
       => result[1].out = [answer |-> NotFoundAnswer, sources |-> <<>>,
                           primaryDocument |-> None]
    /\ (/\ applies("findAnswerInDocuments")
        /\ Len(keywordsOf(result[1].question)) > 0
        /\ ~occursInUnit(keywordsOf(result[1].question), splitParagraphs))
       => result[1].out = [answer |-> ClientNotFound, sources |-> <<>>]

\* a source of the result names the document
namedBySource(doc) ==
    \E i \in 1..Len(result[1].out.sources) : result[1].out.sources[i].document = doc.name

\* there are keywords, and each occurs in the document's content
drawnFrom(words, doc) ==
    /\ Len(words) > 0
    /\ \A w \in 1..Len(words) : includes(toLowerCase(doc.content), words[w])

otherUnits(doc, unitsOfDocument(_)) ==
    Flatten([d \in 1..Len(documents) |->
                IF documents[d].name = doc.name THEN <<>> ELSE unitsOfDocument(documents[d])])

serverUnits(doc) ==
    matchesOfDocument(doc, fallbackWords(toLowerCase(result[1].question)),
                      questionPhraseOf(toLowerCase(result[1].question)))

clientUnits(doc) == chunksOfDocument(doc, keywordsOf(result[1].question))

knownId(raw) ==
    \E i \in 1..Len(uploadedDocuments) : Some(uploadedDocuments[i].id) = parseInt(raw)

\* C9: a failure of the disk does not block the operation on the store: a
\* DELETE of a known id whose file removal fails removes the record and is
\* answered 200, and a POST /api/upload whose file cannot be read appends the
\* record and is answered 200.
C9_DiskFailureNeverBlocks ==
    [][/\ \A raw \in RawIds :
            (DeleteDocument(raw, TRUE) /\ knownId(raw))
            => /\ Len(uploadedDocuments') = Len(uploadedDocuments) - 1
               /\ res'[1].status = 200
       /\ \A f \in ServerFiles :
            Upload(Some(f), "read")
            => /\ uploadedDocuments' = Append(uploadedDocuments, newDocument(uploadedDocuments, f))
               /\ res'[1].status = 200]_vars

\* C10: an upload appends its record at the end and returns that record; a
\* delete answered 200 removes one record, whose id is the id asked for
\* (parseInt of the path parameter), and keeps the others in their order;
\* GET /api/documents returns the array as it is; nothing else changes it.
C10_UploadOrderKept ==
    [][/\ (uploadResponse(res') /\ res'[1].status = 200)
          => uploadedDocuments' = Append(uploadedDocuments, res'[1].body.document)
       /\ (deleteResponse(res') /\ res'[1].status = 200)
          => \E i \in 1..Len(uploadedDocuments) :
                /\ Some(uploadedDocuments[i].id) = parseInt(res'[1].request.id)
                /\ uploadedDocuments' = SubSeq(uploadedDocuments, 1, i - 1)
                                        \o SubSeq(uploadedDocuments, i + 1, Len(uploadedDocuments))
       /\ (res' # None /\ res'[1].route = "GET /api/documents")
          => /\ res'[1].body = uploadedDocuments
             /\ uploadedDocuments' = uploadedDocuments
       /\ uploadedDocuments' # uploadedDocuments
          => /\ uploadResponse(res') \/ deleteResponse(res')
             /\ res'[1].status = 200]_vars

\* GET /api/documents returned two documents, uploaded after a delete: the
\* first has the id 2
C10_Witness ==
    /\ res # None
    /\ res[1].route = "GET /api/documents"
    /\ Len(res[1].body) = 2
    /\ res[1].body[1].id = 2
    /\ res[1].body[1].name # res[1].body[2].name

\* unit k stands before unit j in the ranking: a higher score, or the same
\* score and a higher matchCount, or the same of both and pushed earlier
rankedBefore(units, k, j) ==
    \/ units[k].score > units[j].score
    \/ units[k].score = units[j].score /\ units[k].matchCount > units[j].matchCount
    \/ /\ units[k].score = units[j].score
       /\ units[k].matchCount = units[j].matchCount
       /\ k < j

\* the place of unit j in the ranking
rankOf(units, j) == 1 + Cardinality({k \in 1..Len(units) : rankedBefore(units, k, j)})

\* the units with score > 0 the fallback was applied to, in their original order
fallbackUnits == pushedMatchesOf(result[1].question, documents)

\* C11: the sources of the fallback are the first min(3, n) of the n units
\* with score > 0, by score descending, then matchCount descending, then
\* original order; the answer is the excerpt of the first source and
\* primaryDocument is its document.
C11_SourcesAreTopRanked ==
    applies("getAnswerFromDocuments")
    => LET units == fallbackUnits
           out == result[1].out
       IN  /\ \A j \in 1..Len(units) : units[j].score > 0
           /\ Len(out.sources) = Min2(3, Len(units))
           /\ \A j \in 1..Len(units) :
                 rankOf(units, j) <= 3
                 => out.sources[rankOf(units, j)] =
                        [document |-> units[j].document, excerpt |-> units[j].excerpt]
           /\ Len(units) > 0
              => /\ out.answer = out.sources[1].excerpt
                 /\ out.primaryDocument = Some(out.sources[1].document)

\* the fallback ranked more than 3 units; the first source was pushed after a
\* unit of the same score and a lower matchCount, and two sources tie exactly
C11_Witness ==
    /\ applies("getAnswerFromDocuments")
    /\ Len(fallbackUnits) > 3
    /\ \E j, k \in 1..Len(fallbackUnits) :
          /\ k < j
          /\ rankOf(fallbackUnits, j) = 1
          /\ fallbackUnits[k].score = fallbackUnits[j].score
          /\ fallbackUnits[k].matchCount < fallbackUnits[j].matchCount
    /\ \E j, k \in 1..Len(fallbackUnits) :
          /\ k < j
          /\ rankOf(fallbackUnits, j) <= 3
          /\ fallbackUnits[k].score = fallbackUnits[j].score
          /\ fallbackUnits[k].matchCount = fallbackUnits[j].matchCount

\* the documents the answer of the applied model path mentions
mentionedDocuments ==
    {d \in 1..Len(documents) : mentionedIn(result[1].out.answer, documents[d])}

\* the keyword score of document d for the applied question
keywordScore(d) == documentScore(documents[d], modelPathWords(result[1].question))

\* the names of the sources of the result, in their order
citedNames == [i \in 1..Len(result[1].out.sources) |-> result[1].out.sources[i].document]

\* every source names a document the answer mentions
citesMentionedOnly ==
    \A i \in 1..Len(citedNames) :
        \E d \in mentionedDocuments : documents[d].name = citedNames[i]

\* the documents with a positive keyword score
scoringDocuments == {d \in 1..Len(documents) : keywordScore(d) > 0}

\* the place of document d among the scoring documents: higher scores first,
\* equal scores in the order of the store
documentRank(d) ==
    1 + Cardinality({k \in scoringDocuments :
                        \/ keywordScore(k) > keywordScore(d)
                        \/ keywordScore(k) = keywordScore(d) /\ k < d})

\* the scoring document of place r
documentOfRank(r) == CHOOSE d \in scoringDocuments : documentRank(d) = r

\* the names of the scoring documents of the first 3 places, in that order
topKeywordNames ==
    [r \in 1..Min2(3, Cardinality(scoringDocuments)) |-> documents[documentOfRank(r)].name]

\* the document has a sentence of more than 20 characters that holds a keyword
hasExcerpt(name) ==
    \E d \in 1..Len(documents) :
        /\ documents[d].name = name
        /\ Len(relevantSentences(documents[d], modelPathWords(result[1].question))) > 0

askResumed == ask # None /\ ask' = None

\* C13: when a suspended POST /api/ask is resumed, the store holds the
\* documents that were put into the prompt; every source of the response
\* names a document of the prompt, and the fallback does not run on an empty
\* store.
C13_PromptSetUsedAfterAwait ==
    [][askResumed
       => /\ documentMapOf(uploadedDocuments) = ask[1].documentMap
          /\ \A i \in 1..Len(res'[1].body.sources) :
                res'[1].body.sources[i].document \in DOMAIN ask[1].documentMap
          /\ res'[1].body.method = "fallback_search" => Len(uploadedDocuments) > 0]_vars

\* the documents of a list, as a set
recordsOf(list) == {list[i] : i \in 1..Len(list)}

\* C14: when the callback of a pending upload completes, the list of the
\* client holds the new document and exactly the documents the list held just
\* before (those present at the start of the upload and not deleted since),
\* and the stored list equals it; a document deleted meanwhile is not back.
C14_NoLostUpdate ==
    [][readerOnLoad
       => /\ recordsOf(docs') =
                recordsOf(docs) \cup {clientDocument(reader[1].file, now)}
          /\ stored(localStorage') = docs']_vars

====
